---- MODULE Spec2Model ----
(***************************************************************************)
(* Authorization core of the mainflux users service.                       *)
(*                                                                         *)
(*   SpecAgent : the two PolicyAgent backends (the Keto client and the     *)
(*               in-memory mock), fed the same calls.                      *)
(*   Spec      : the users service (Register, Login) over the auth         *)
(*               service client, the user repository, the hasher and the   *)
(*               id provider.                                              *)
(***************************************************************************)
EXTENDS Integers, Sequences, FiniteSets, TLC

VARIABLES
    \* ---- PolicyAgent backends
    authzDB,      \* policyAgentMock.authzDB : subject -> list of MockSubjectSet
    ketoDB,       \* relation tuples held by Keto in namespace "members"
    lastCall,     \* the PolicyAgent call made last, with the outcome of its RPC
    mockRes,      \* error returned by the mock for lastCall
    ketoRes,      \* error returned by the Keto client for lastCall
    initTuples,   \* the tuple set both backends were constructed from
    mockAdded,    \* tuples whose AddPolicy returned nil on the mock
    ketoAdded,    \* tuples whose AddPolicy returned nil on the Keto client
    gor,          \* goroutines running policyAgentMock.AddPolicy on one mock
    \* ---- users service and its collaborators
    users,        \* UserRepository: the stored User records
    policies,     \* relation tuples held behind the auth service client
    idCount,      \* number of ids the id provider has handed out
    op,           \* the Service method being executed
    pc,           \* position inside that method
    token,        \* its token argument
    user,         \* its user argument (Register sets ID and Password on it)
    args,         \* its other arguments
    authzErr,     \* Register: the error checkAuthz returned
    calls,        \* the calls made on collaborators so far, with their outcome
    ret           \* the method's return values

agentVars == <<authzDB, ketoDB, lastCall, mockRes, ketoRes, initTuples,
               mockAdded, ketoAdded, gor>>

svcVars == <<users, policies, idCount, op, pc, token, user, args, authzErr, calls, ret>>

vars == <<authzDB, ketoDB, lastCall, mockRes, ketoRes, initTuples,
          mockAdded, ketoAdded, gor,
          users, policies, idCount, op, pc, token, user, args, authzErr, calls, ret>>

----------------------------------------------------------------------------
\* Errors: an error is the chain of its messages, outermost first; nil is
\* the empty chain.  Callers branch on the outermost message (the kind).

nil == <<>>

authErrAuthorization == <<"Authorization">>

errRPC == <<"rpc">>

\* errors.Wrap(wrapper, err): an Error whose message is the wrapper's and
\* whose cause is err.
Wrap(wrapper, err) ==
    IF wrapper = nil \/ err = nil THEN nil ELSE <<Head(wrapper)>> \o err

Kind(e) == IF e = nil THEN "ok" ELSE Head(e)

Range(s) == {s[i] : i \in DOMAIN s}

----------------------------------------------------------------------------
\* PolicyAgent backends

MaxAdds == 3

Subjects == {"s1", "s2"}

\* auth.PolicyReq values used as inputs: a base tuple, three tuples that
\* differ from it in exactly one field, and one that differs in all.
PolicyReqs ==
    { [Subject |-> "s1", Object |-> "users",       Relation |-> "member"],
      [Subject |-> "s2", Object |-> "users",       Relation |-> "member"],
      [Subject |-> "s1", Object |-> "authorities", Relation |-> "member"],
      [Subject |-> "s1", Object |-> "users",       Relation |-> "create"],
      [Subject |-> "s2", Object |-> "authorities", Relation |-> "create"] }

MockSubjectSet(pr) == [Object |-> pr.Object, Relation |-> pr.Relation]

\* NewKetoMock(db): the map the mock is constructed with.
NewKetoMock(tuples) ==
    [s \in Subjects |->
        IF \E pr \in tuples : pr.Subject = s
        THEN <<MockSubjectSet(CHOOSE pr \in tuples : pr.Subject = s)>>
        ELSE <<>>]

RECURSIVE mockScan_ObjectOnly(_, _, _)
mockScan_ObjectOnly(ssList, pr, i) ==
    IF i > Len(ssList) THEN authErrAuthorization
    ELSE IF ssList[i].Object = pr.Object
         THEN nil
         ELSE mockScan_ObjectOnly(ssList, pr, i + 1)

RECURSIVE mockScan(_, _, _)
mockScan(ssList, pr, i) ==
    IF i > Len(ssList) THEN authErrAuthorization
    ELSE IF ssList[i].Object = pr.Object /\ ssList[i].Relation = pr.Relation
         THEN nil
         ELSE mockScan(ssList, pr, i + 1)

policyAgentMock_CheckPolicy(db, pr) == mockScan(db[pr.Subject], pr, 1)

policyAgentMock_AddPolicy_Overwrite(db, pr) ==
    [db EXCEPT ![pr.Subject] = <<MockSubjectSet(pr)>>]

policyAgentMock_AddPolicy(db, pr) ==
    [db EXCEPT ![pr.Subject] = Append(db[pr.Subject], MockSubjectSet(pr))]

\* checker.Check answers with an error, or with allowed = the tuple is stored.
policyAgent_CheckPolicy(db, pr, rpcErr) ==
    IF rpcErr # nil THEN Wrap(rpcErr, authErrAuthorization)
    ELSE IF pr \notin db THEN authErrAuthorization
    ELSE nil

\* writer.TransactRelationTuples with one INSERT delta; the error of the RPC
\* is returned as it is.
policyAgent_AddPolicy(rpcErr) == rpcErr

ketoInsert(db, pr, rpcErr) == IF rpcErr = nil THEN db \cup {pr} ELSE db

TotalLen(db) == Len(db["s1"]) + Len(db["s2"])

\* the goroutines that call AddPolicy on a shared mock
Goroutines == {"g1", "g2"}

NoPolicyReq == [Subject |-> "", Object |-> "", Relation |-> ""]

\* no goroutine has started
GorIdle ==
    [pc |-> [g \in Goroutines |-> "idle"],
     pr |-> [g \in Goroutines |-> NoPolicyReq],
     ssList |-> [g \in Goroutines |-> <<>>],
     fatal |-> FALSE]

----------------------------------------------------------------------------
\* users service: constants, error kinds and collaborators

MaxIds == 2

memberRelationKey == "member"
authoritiesObjKey == "authorities"
usersObjKey == "users"

ErrConflict == <<"Conflict">>
ErrMalformedEntity == <<"MalformedEntity">>
ErrUnauthorizedAccess == <<"Unauthorized">>
ErrAuthorization == <<"Authorization">>
ErrNotFound == <<"NotFound">>
ErrUserNotFound == <<"UserNotFound">>
ErrCreateUser == <<"CreateUser">>
ErrPasswordFormat == <<"PasswordFormat">>

ErrRecoveryToken == <<"RecoveryToken">>

\* failures of the collaborators themselves
errHash == <<"hash">>
errDB == <<"db">>
errMismatch == <<"mismatch">>
errUnauthenticated == <<"unauthenticated">>

\* ids the id provider hands out, in order
UIDs == <<"u1", "u2", "u3", "u4">>

Tokens == {"", "bad", "tokA", "tokB"}
Emails == {"", "a@x.com", "b@x.com"}
Passwords == {"weak", "Str0ng!pw", "0ther!pw"}

\* the identities the auth service knows, by token
Identities ==
    [t \in {"tokA", "tokB"} |->
        IF t = "tokA" THEN [id |-> "idA", email |-> "a@x.com"]
                      ELSE [id |-> "idB", email |-> "b@x.com"]]

NoIdentity == [id |-> "", email |-> ""]

\* User{}
NoUser == [ID |-> "", Email |-> "", Password |-> "", Metadata |-> ""]

\* a method without further arguments
NoArgs == [id |-> "", offset |-> 0, limit |-> 0, groupID |-> "",
           password |-> "", oldPassword |-> "", email |-> ""]

bootstrapPolicy == [Sub |-> "*", Obj |-> "user", Act |-> "create"]
adminPolicy == [Sub |-> "idA", Obj |-> authoritiesObjKey, Act |-> memberRelationKey]

AuthorizeReq(subject, object, relation) ==
    [Sub |-> subject, Obj |-> object, Act |-> relation]

AddPolicyReq(subject, object, relation) ==
    [Sub |-> subject, Obj |-> object, Act |-> relation]

Call(name, ok) == [call |-> name, ok |-> ok]

\* an Authorize call, with whether the RPC itself returned an error
AuthorizeCall(ok, rpcErr) == [call |-> "Authorize", ok |-> ok, rpc |-> rpcErr # nil]

\* svc.passRegex.MatchString
passRegexMatch(p) == p \in {"Str0ng!pw", "0ther!pw"}

\* User.Validate: the email must be well formed
Validate(u) == IF u.Email = "" THEN ErrMalformedEntity ELSE nil

\* Hasher.Hash: a one-way image of the password
Hash(p) ==
    CASE p = "weak" -> "$2a$weak"
      [] p = "Str0ng!pw" -> "$2a$Str0ng!pw"
      [] p = "0ther!pw" -> "$2a$0ther!pw"
      [] OTHER -> "$2a$"

\* Hasher.Compare(plain, hashed)
Compare(plain, hashed) == IF hashed = Hash(plain) THEN nil ELSE errMismatch

\* auth.Authorize: an error, or authorized = the tuple is stored
auth_Authorize(pol, req, rpcErr) ==
    IF rpcErr # nil THEN [authorized |-> FALSE, err |-> rpcErr]
    ELSE [authorized |-> req \in pol, err |-> nil]

\* auth.AddPolicy: the tuples stored after the call; the tuple is inserted
\* when the call answers authorized without an error
auth_AddPolicy(pol, req, authorized, rpcErr) ==
    IF rpcErr = nil /\ authorized THEN pol \cup {req} ELSE pol

\* auth.Identify: an error, or the identity the token stands for
auth_Identify(tok, rpcErr) ==
    IF rpcErr # nil THEN [identity |-> NoIdentity, err |-> rpcErr]
    ELSE IF tok \notin DOMAIN Identities
         THEN [identity |-> NoIdentity, err |-> errUnauthenticated]
         ELSE [identity |-> Identities[tok], err |-> nil]

\* UserRepository.RetrieveByEmail
RetrieveByEmail(repo, email, dbErr) ==
    IF dbErr # nil THEN [user |-> NoUser, err |-> dbErr]
    ELSE IF \E u \in repo : u.Email = email
         THEN [user |-> CHOOSE u \in repo : u.Email = email, err |-> nil]
         ELSE [user |-> NoUser, err |-> ErrNotFound]

\* UserRepository.Save: the error, when the record is not stored
SaveErr(repo, u, dbErr) ==
    IF dbErr # nil THEN dbErr
    ELSE IF \E v \in repo : v.Email = u.Email THEN ErrConflict
    ELSE nil

\* UserRepository.Save: the id returned for a stored record
SaveID(u) == u.ID

\* UserRepository.RetrieveByID
RetrieveByID(repo, id, dbErr) ==
    IF dbErr # nil THEN [user |-> NoUser, err |-> dbErr]
    ELSE IF \E u \in repo : u.ID = id
         THEN [user |-> CHOOSE u \in repo : u.ID = id, err |-> nil]
         ELSE [user |-> NoUser, err |-> ErrNotFound]

\* a nil slice and a slice with the given items
NilSlice == [nil |-> TRUE, items |-> <<>>]
Slice(items) == [nil |-> FALSE, items |-> items]

\* UserPage{}
NoPage == [Total |-> 0, Offset |-> 0, Limit |-> 0, Users |-> NilSlice]

Min(a, b) == IF a < b THEN a ELSE b

\* the items of a list from offset on, limit of them at most
Window(list, offset, limit) ==
    SubSeq(list, offset + 1, Min(Len(list), offset + limit))

\* UserRepository.RetrieveAll: the page of the stored users, in id order, that
\* match the ids (when given) and the email filter
RetrieveAll(repo, offset, limit, ids, email, dbErr) ==
    LET Match(id) ==
            /\ \E u \in repo : u.ID = id /\ (email = "" \/ u.Email = email)
            /\ (ids.nil \/ id \in Range(ids.items))
        found == SelectSeq(UIDs, Match)
        page == Window(found, offset, limit)
    IN  IF dbErr # nil THEN [page |-> NoPage, err |-> dbErr]
        ELSE [page |-> [Total |-> Len(found), Offset |-> offset, Limit |-> limit,
                        Users |-> Slice([i \in DOMAIN page |->
                                     [(CHOOSE u \in repo : u.ID = page[i])
                                          EXCEPT !.Password = ""]])],
              err |-> nil]

\* UserRepository.UpdateUser: sets the metadata of the record with the
\* user's email
repo_UpdateUser(repo, u, dbErr) ==
    IF dbErr # nil THEN [users |-> repo, err |-> dbErr]
    ELSE IF ~\E v \in repo : v.Email = u.Email THEN [users |-> repo, err |-> ErrNotFound]
    ELSE [users |-> {IF v.Email = u.Email THEN [v EXCEPT !.Metadata = u.Metadata] ELSE v
                        : v \in repo},
          err |-> nil]

\* UserRepository.UpdatePassword: sets the password of the record with the
\* email
UpdatePassword(repo, email, password, dbErr) ==
    IF dbErr # nil THEN [users |-> repo, err |-> dbErr]
    ELSE IF ~\E v \in repo : v.Email = email THEN [users |-> repo, err |-> ErrNotFound]
    ELSE [users |-> {IF v.Email = email THEN [v EXCEPT !.Password = password] ELSE v
                        : v \in repo},
          err |-> nil]

\* the groups the auth service knows, with their member ids
Groups == [g \in {"g0", "g1"} |-> IF g = "g1" THEN <<"u1", "u2", "u3">> ELSE <<>>]

\* auth.Members: the member ids of the group in the window of the request
auth_Members(req, rpcErr) ==
    IF rpcErr # nil THEN [Members |-> <<>>, err |-> rpcErr]
    ELSE IF req.GroupID \notin DOMAIN Groups THEN [Members |-> <<>>, err |-> nil]
    ELSE [Members |-> Window(Groups[req.GroupID], req.Offset, req.Limit), err |-> nil]

errMail == <<"smtp">>

\* a call together with what was passed to the collaborator
CallReq(name, ok, req) == [call |-> name, ok |-> ok, req |-> req]

\* the error of the i-th collaborator call of a method, of which the
\* failAt-th fails (none when failAt = 0)
Fail(failAt, i, e) == IF failAt = i THEN e ELSE nil

----------------------------------------------------------------------------
\* users service: helpers

authorize(pol, subject, object, relation, rpcErr) ==
    LET res == auth_Authorize(pol, AuthorizeReq(subject, object, relation), rpcErr)
    IN  IF res.err # nil THEN Wrap(ErrAuthorization, res.err)
        ELSE IF ~res.authorized THEN ErrAuthorization
        ELSE nil

identify_Unwrapped(tok, rpcErr) ==
    LET res == auth_Identify(tok, rpcErr)
    IN  IF res.err # nil
        THEN [ir |-> NoIdentity, err |-> res.err]
        ELSE [ir |-> res.identity, err |-> nil]

identify(tok, rpcErr) ==
    LET res == auth_Identify(tok, rpcErr)
    IN  IF res.err # nil
        THEN [ir |-> NoIdentity, err |-> Wrap(ErrUnauthorizedAccess, res.err)]
        ELSE [ir |-> res.identity, err |-> nil]

claimOwnership_NoAuthorizedCheck(authorized, rpcErr) ==
    IF rpcErr # nil THEN Wrap(ErrAuthorization, rpcErr)
    ELSE nil

\* the error claimOwnership returns for the response (authorized, rpcErr)
claimOwnership(authorized, rpcErr) ==
    IF rpcErr # nil THEN Wrap(ErrAuthorization, rpcErr)
    ELSE IF ~authorized THEN ErrAuthorization
    ELSE nil

issue(id, email, keyType, rpcErr) ==
    IF rpcErr # nil THEN [val |-> "", err |-> Wrap(ErrUserNotFound, rpcErr)]
    ELSE [val |-> keyType, err |-> nil]

checkAuthz_NoMemberCheck(pol, tok, e1, e2, e3) ==
    LET a1 == authorize(pol, "*", "user", "create", e1)
        i  == identify(tok, e2)
    IN  IF a1 = nil
        THEN [err |-> nil, calls |-> <<AuthorizeCall(TRUE, e1)>>]
        ELSE IF tok = ""
        THEN [err |-> ErrUnauthorizedAccess, calls |-> <<AuthorizeCall(FALSE, e1)>>]
        ELSE [err |-> i.err,
              calls |-> <<AuthorizeCall(FALSE, e1), Call("Identify", i.err = nil)>>]

\* checkAuthz with the RPC outcomes e1 (bootstrap check), e2 (Identify) and
\* e3 (member check): the error returned and the calls made.
checkAuthz(pol, tok, e1, e2, e3) ==
    LET a1 == authorize(pol, "*", "user", "create", e1)
        i  == identify(tok, e2)
        a3 == authorize(pol, i.ir.id, authoritiesObjKey, memberRelationKey, e3)
    IN  IF a1 = nil
        THEN [err |-> nil, calls |-> <<AuthorizeCall(TRUE, e1)>>]
        ELSE IF tok = ""
        THEN [err |-> ErrUnauthorizedAccess, calls |-> <<AuthorizeCall(FALSE, e1)>>]
        ELSE IF i.err # nil
        THEN [err |-> i.err,
              calls |-> <<AuthorizeCall(FALSE, e1), Call("Identify", FALSE)>>]
        ELSE [err |-> a3,
              calls |-> <<AuthorizeCall(FALSE, e1), Call("Identify", TRUE),
                          AuthorizeCall(a3 = nil, e3)>>]

Login_LeaksNotFound(repo, u, dbErr, rpcErr) ==
    LET r == RetrieveByEmail(repo, u.Email, dbErr)
        c == Compare(u.Password, r.user.Password)
        k == issue(r.user.ID, r.user.Email, "UserKey", rpcErr)
    IN  IF r.err # nil
        THEN [val |-> "", err |-> r.err,
              calls |-> <<Call("RetrieveByEmail", FALSE)>>]
        ELSE IF c # nil
        THEN [val |-> "", err |-> Wrap(ErrUnauthorizedAccess, c),
              calls |-> <<Call("RetrieveByEmail", TRUE), Call("Compare", FALSE)>>]
        ELSE [val |-> k.val, err |-> k.err,
              calls |-> <<Call("RetrieveByEmail", TRUE), Call("Compare", TRUE),
                          Call("Issue", k.err = nil)>>]

\* Login: the return values and the calls made
Login(repo, u, dbErr, rpcErr) ==
    LET r == RetrieveByEmail(repo, u.Email, dbErr)
        c == Compare(u.Password, r.user.Password)
        k == issue(r.user.ID, r.user.Email, "UserKey", rpcErr)
    IN  IF r.err # nil
        THEN [val |-> "", err |-> Wrap(ErrUnauthorizedAccess, r.err),
              calls |-> <<Call("RetrieveByEmail", FALSE)>>]
        ELSE IF c # nil
        THEN [val |-> "", err |-> Wrap(ErrUnauthorizedAccess, c),
              calls |-> <<Call("RetrieveByEmail", TRUE), Call("Compare", FALSE)>>]
        ELSE [val |-> k.val, err |-> k.err,
              calls |-> <<Call("RetrieveByEmail", TRUE), Call("Compare", TRUE),
                          Call("Issue", k.err = nil)>>]

----------------------------------------------------------------------------
\* users service: the methods that run to their return in one step.  Each
\* gives the values returned, the calls made on the collaborators and the
\* users stored afterwards; failAt is the collaborator call that fails.

Result(val, err, cs, repo) == [val |-> val, err |-> err, calls |-> cs, users |-> repo]

ViewUser_ReturnsDbUser(repo, tok, id, failAt) ==
    LET i == identify(tok, Fail(failAt, 1, errRPC))
        r == RetrieveByID(repo, id, Fail(failAt, 2, errDB))
    IN  IF i.err # nil
        THEN Result(NoUser, i.err, <<Call("Identify", FALSE)>>, repo)
        ELSE IF r.err # nil
        THEN Result(NoUser, Wrap(ErrUnauthorizedAccess, r.err),
                    <<Call("Identify", TRUE), Call("RetrieveByID", FALSE)>>, repo)
        ELSE Result(r.user, nil,
                    <<Call("Identify", TRUE), Call("RetrieveByID", TRUE)>>, repo)

ViewUser(repo, tok, id, failAt) ==
    LET i == identify(tok, Fail(failAt, 1, errRPC))
        r == RetrieveByID(repo, id, Fail(failAt, 2, errDB))
    IN  IF i.err # nil
        THEN Result(NoUser, i.err, <<Call("Identify", FALSE)>>, repo)
        ELSE IF r.err # nil
        THEN Result(NoUser, Wrap(ErrUnauthorizedAccess, r.err),
                    <<Call("Identify", TRUE), Call("RetrieveByID", FALSE)>>, repo)
        ELSE Result([ID |-> id, Email |-> r.user.Email, Password |-> "",
                     Metadata |-> r.user.Metadata], nil,
                    <<Call("Identify", TRUE), Call("RetrieveByID", TRUE)>>, repo)

ViewProfile(repo, tok, failAt) ==
    LET i == identify(tok, Fail(failAt, 1, errRPC))
        r == RetrieveByEmail(repo, i.ir.email, Fail(failAt, 2, errDB))
    IN  IF i.err # nil
        THEN Result(NoUser, i.err, <<Call("Identify", FALSE)>>, repo)
        ELSE IF r.err # nil
        THEN Result(NoUser, Wrap(ErrUnauthorizedAccess, r.err),
                    <<Call("Identify", TRUE), Call("RetrieveByEmail", FALSE)>>, repo)
        ELSE Result([ID |-> r.user.ID, Email |-> i.ir.email, Password |-> "",
                     Metadata |-> r.user.Metadata], nil,
                    <<Call("Identify", TRUE), Call("RetrieveByEmail", TRUE)>>, repo)

ListUsers_IgnoresIdentify(repo, tok, offset, limit, email, failAt) ==
    LET i == identify(tok, Fail(failAt, 1, errRPC))
        r == RetrieveAll(repo, offset, limit, NilSlice, email, Fail(failAt, 2, errDB))
        q == [offset |-> offset, limit |-> limit, ids |-> NilSlice, email |-> email]
    IN  Result(r.page, r.err,
               <<Call("Identify", i.err = nil), CallReq("RetrieveAll", r.err = nil, q)>>, repo)

ListUsers(repo, tok, offset, limit, email, failAt) ==
    LET i == identify(tok, Fail(failAt, 1, errRPC))
        r == RetrieveAll(repo, offset, limit, NilSlice, email, Fail(failAt, 2, errDB))
        q == [offset |-> offset, limit |-> limit, ids |-> NilSlice, email |-> email]
    IN  IF i.err # nil
        THEN Result(NoPage, i.err, <<Call("Identify", FALSE)>>, repo)
        ELSE Result(r.page, r.err,
                    <<Call("Identify", TRUE), CallReq("RetrieveAll", r.err = nil, q)>>, repo)

UpdateUser_PayloadEmail(repo, tok, u, failAt) ==
    LET i == identify(tok, Fail(failAt, 1, errRPC))
        usr == [NoUser EXCEPT !.Email = u.Email, !.Metadata = u.Metadata]
        r == repo_UpdateUser(repo, usr, Fail(failAt, 2, errDB))
    IN  IF i.err # nil
        THEN Result("", Wrap(ErrUnauthorizedAccess, i.err), <<Call("Identify", FALSE)>>, repo)
        ELSE Result("", r.err,
                    <<Call("Identify", TRUE), CallReq("UpdateUser", r.err = nil, usr)>>,
                    r.users)

UpdateUser(repo, tok, u, failAt) ==
    LET i == identify(tok, Fail(failAt, 1, errRPC))
        usr == [NoUser EXCEPT !.Email = i.ir.email, !.Metadata = u.Metadata]
        r == repo_UpdateUser(repo, usr, Fail(failAt, 2, errDB))
    IN  IF i.err # nil
        THEN Result("", Wrap(ErrUnauthorizedAccess, i.err), <<Call("Identify", FALSE)>>, repo)
        ELSE Result("", r.err,
                    <<Call("Identify", TRUE), CallReq("UpdateUser", r.err = nil, usr)>>,
                    r.users)

\* Emailer.SendPasswordReset, as called by the method SendPasswordReset
SendPasswordReset(host, email, tok, mailErr) ==
    [err |-> mailErr,
     call |-> CallReq("SendPasswordReset", mailErr = nil,
                      [to |-> <<email>>, host |-> host, token |-> tok])]

GenerateResetToken_NoLookupCheck(repo, email, host, failAt) ==
    LET r == RetrieveByEmail(repo, email, Fail(failAt, 1, errDB))
        t == issue(r.user.ID, r.user.Email, "RecoveryKey", Fail(failAt, 2, errRPC))
        m == SendPasswordReset(host, email, t.val, Fail(failAt, 3, errMail))
    IN  IF t.err # nil
        THEN Result("", Wrap(ErrRecoveryToken, t.err),
                    <<Call("RetrieveByEmail", r.err = nil), Call("Issue", FALSE)>>, repo)
        ELSE Result("", m.err,
                    <<Call("RetrieveByEmail", r.err = nil), Call("Issue", TRUE), m.call>>, repo)

GenerateResetToken(repo, email, host, failAt) ==
    LET r == RetrieveByEmail(repo, email, Fail(failAt, 1, errDB))
        t == issue(r.user.ID, r.user.Email, "RecoveryKey", Fail(failAt, 2, errRPC))
        m == SendPasswordReset(host, email, t.val, Fail(failAt, 3, errMail))
    IN  IF r.err # nil \/ r.user.Email = ""
        THEN Result("", ErrUserNotFound, <<Call("RetrieveByEmail", r.err = nil)>>, repo)
        ELSE IF t.err # nil
        THEN Result("", Wrap(ErrRecoveryToken, t.err),
                    <<Call("RetrieveByEmail", TRUE), Call("Issue", FALSE)>>, repo)
        ELSE Result("", m.err,
                    <<Call("RetrieveByEmail", TRUE), Call("Issue", TRUE), m.call>>, repo)

ResetPassword_IgnoresLookup(repo, resetToken, password, failAt) ==
    LET i == identify(resetToken, Fail(failAt, 1, errRPC))
        r == RetrieveByEmail(repo, i.ir.email, Fail(failAt, 2, errDB))
        hErr == Fail(failAt, 3, errHash)
        w == UpdatePassword(repo, i.ir.email, Hash(password), Fail(failAt, 4, errDB))
        c1 == <<Call("Identify", TRUE)>>
        c2 == Append(c1, Call("RetrieveByEmail", r.err = nil))
        c3 == Append(c2, Call("Hash", TRUE))
    IN  IF i.err # nil
        THEN Result("", Wrap(ErrUnauthorizedAccess, i.err), <<Call("Identify", FALSE)>>, repo)
        ELSE IF ~passRegexMatch(password) THEN Result("", ErrPasswordFormat, c2, repo)
        ELSE IF hErr # nil
        THEN Result("", hErr, Append(c2, Call("Hash", FALSE)), repo)
        ELSE Result("", w.err,
                    Append(c3, CallReq("UpdatePassword", w.err = nil,
                                       [email |-> i.ir.email, password |-> Hash(password)])),
                    w.users)

ResetPassword(repo, resetToken, password, failAt) ==
    LET i == identify(resetToken, Fail(failAt, 1, errRPC))
        r == RetrieveByEmail(repo, i.ir.email, Fail(failAt, 2, errDB))
        hErr == Fail(failAt, 3, errHash)
        w == UpdatePassword(repo, i.ir.email, Hash(password), Fail(failAt, 4, errDB))
        c1 == <<Call("Identify", TRUE)>>
        c2 == Append(c1, Call("RetrieveByEmail", TRUE))
        c3 == Append(c2, Call("Hash", TRUE))
    IN  IF i.err # nil
        THEN Result("", Wrap(ErrUnauthorizedAccess, i.err), <<Call("Identify", FALSE)>>, repo)
        ELSE IF r.err # nil
        THEN Result("", r.err, Append(c1, Call("RetrieveByEmail", FALSE)), repo)
        ELSE IF r.user.Email = "" THEN Result("", ErrUserNotFound, c2, repo)
        ELSE IF ~passRegexMatch(password) THEN Result("", ErrPasswordFormat, c2, repo)
        ELSE IF hErr # nil
        THEN Result("", hErr, Append(c2, Call("Hash", FALSE)), repo)
        ELSE Result("", w.err,
                    Append(c3, CallReq("UpdatePassword", w.err = nil,
                                       [email |-> i.ir.email, password |-> Hash(password)])),
                    w.users)

ChangePassword_NoReauth(repo, authToken, password, oldPassword, failAt) ==
    LET i == identify(authToken, Fail(failAt, 1, errRPC))
        u == [NoUser EXCEPT !.Email = i.ir.email, !.Password = oldPassword]
        l == Login(repo, u, Fail(failAt, 2, errDB), Fail(failAt, 3, errRPC))
        r == RetrieveByEmail(repo, i.ir.email, Fail(failAt, 4, errDB))
        hErr == Fail(failAt, 5, errHash)
        w == UpdatePassword(repo, i.ir.email, Hash(password), Fail(failAt, 6, errDB))
        c1 == <<Call("Identify", TRUE)>>
        c2 == c1 \o l.calls
        c3 == Append(c2, Call("RetrieveByEmail", TRUE))
        c4 == Append(c3, Call("Hash", TRUE))
    IN  IF i.err # nil
        THEN Result("", Wrap(ErrUnauthorizedAccess, i.err), <<Call("Identify", FALSE)>>, repo)
        ELSE IF ~passRegexMatch(password) THEN Result("", ErrPasswordFormat, c1, repo)
        ELSE IF r.err # nil \/ r.user.Email = ""
        THEN Result("", ErrUserNotFound, Append(c2, Call("RetrieveByEmail", r.err = nil)), repo)
        ELSE IF hErr # nil
        THEN Result("", hErr, Append(c3, Call("Hash", FALSE)), repo)
        ELSE Result("", w.err,
                    Append(c4, CallReq("UpdatePassword", w.err = nil,
                                       [email |-> i.ir.email, password |-> Hash(password)])),
                    w.users)

ChangePassword(repo, authToken, password, oldPassword, failAt) ==
    LET i == identify(authToken, Fail(failAt, 1, errRPC))
        u == [NoUser EXCEPT !.Email = i.ir.email, !.Password = oldPassword]
        l == Login(repo, u, Fail(failAt, 2, errDB), Fail(failAt, 3, errRPC))
        r == RetrieveByEmail(repo, i.ir.email, Fail(failAt, 4, errDB))
        hErr == Fail(failAt, 5, errHash)
        w == UpdatePassword(repo, i.ir.email, Hash(password), Fail(failAt, 6, errDB))
        c1 == <<Call("Identify", TRUE)>>
        c2 == c1 \o l.calls
        c3 == Append(c2, Call("RetrieveByEmail", TRUE))
        c4 == Append(c3, Call("Hash", TRUE))
    IN  IF i.err # nil
        THEN Result("", Wrap(ErrUnauthorizedAccess, i.err), <<Call("Identify", FALSE)>>, repo)
        ELSE IF ~passRegexMatch(password) THEN Result("", ErrPasswordFormat, c1, repo)
        ELSE IF l.err # nil THEN Result("", ErrUnauthorizedAccess, c2, repo)
        ELSE IF r.err # nil \/ r.user.Email = ""
        THEN Result("", ErrUserNotFound, Append(c2, Call("RetrieveByEmail", r.err = nil)), repo)
        ELSE IF hErr # nil
        THEN Result("", hErr, Append(c3, Call("Hash", FALSE)), repo)
        ELSE Result("", w.err,
                    Append(c4, CallReq("UpdatePassword", w.err = nil,
                                       [email |-> i.ir.email, password |-> Hash(password)])),
                    w.users)

MembersReq(tok, groupID, offset, limit) ==
    [Token |-> tok, GroupID |-> groupID, Offset |-> offset, Limit |-> limit,
     Type |-> "users"]

\* members(ctx, token, groupID, limit, offset): the parameters are declared
\* in this order
members(tok, groupID, limit, offset, rpcErr) ==
    LET req == MembersReq(tok, groupID, offset, limit)
        res == auth_Members(req, rpcErr)
    IN  [ids |-> IF res.err # nil THEN NilSlice ELSE Slice(res.Members),
         err |-> res.err,
         call |-> CallReq("Members", res.err = nil, req)]

ListMembers_ZeroPage(repo, tok, groupID, offset, limit, failAt) ==
    LET i == identify(tok, Fail(failAt, 1, errRPC))
        m == members(tok, groupID, offset, limit, Fail(failAt, 2, errRPC))
        r == RetrieveAll(repo, offset, limit, m.ids, "", Fail(failAt, 3, errDB))
        q == [offset |-> offset, limit |-> limit, ids |-> m.ids, email |-> ""]
        c1 == <<Call("Identify", TRUE)>>
        c2 == Append(c1, m.call)
    IN  IF i.err # nil
        THEN Result(NoPage, i.err, <<Call("Identify", FALSE)>>, repo)
        ELSE IF m.err # nil THEN Result(NoPage, m.err, c2, repo)
        ELSE IF Len(m.ids.items) = 0
        THEN Result(NoPage, nil, c2, repo)
        ELSE Result(r.page, r.err, Append(c2, CallReq("RetrieveAll", r.err = nil, q)), repo)

ListMembers(repo, tok, groupID, offset, limit, failAt) ==
    LET i == identify(tok, Fail(failAt, 1, errRPC))
        m == members(tok, groupID, offset, limit, Fail(failAt, 2, errRPC))
        r == RetrieveAll(repo, offset, limit, m.ids, "", Fail(failAt, 3, errDB))
        q == [offset |-> offset, limit |-> limit, ids |-> m.ids, email |-> ""]
        c1 == <<Call("Identify", TRUE)>>
        c2 == Append(c1, m.call)
    IN  IF i.err # nil
        THEN Result(NoPage, i.err, <<Call("Identify", FALSE)>>, repo)
        ELSE IF m.err # nil THEN Result(NoPage, m.err, c2, repo)
        ELSE IF Len(m.ids.items) = 0
        THEN Result([Total |-> 0, Offset |-> offset, Limit |-> limit, Users |-> Slice(<<>>)],
                    nil, c2, repo)
        ELSE Result(r.page, r.err, Append(c2, CallReq("RetrieveAll", r.err = nil, q)), repo)

----------------------------------------------------------------------------
\* users service: Register, one step per collaborator call

Return(val, err) ==
    /\ ret' = [val |-> val, err |-> err]
    /\ pc' = "done"

RegisterCall ==
    \E tok \in Tokens, email \in Emails, pw \in {"weak", "Str0ng!pw"} :
        /\ pc \in {"idle", "done"}
        /\ idCount < MaxIds
        /\ op' = "Register"
        /\ pc' = "checkAuthz"
        /\ token' = tok
        /\ user' = [ID |-> "", Email |-> email, Password |-> pw, Metadata |-> "m0"]
        /\ args' = NoArgs
        /\ authzErr' = <<"pending">>
        /\ calls' = <<>>
        /\ ret' = [val |-> "", err |-> nil]
        /\ UNCHANGED <<users, policies, idCount, agentVars>>

Register_checkAuthz ==
    /\ op = "Register" /\ pc = "checkAuthz"
    /\ \E e1 \in {nil, errRPC}, e2 \in {nil, errRPC}, e3 \in {nil, errRPC} :
        LET r == checkAuthz(policies, token, e1, e2, e3)
        IN  /\ authzErr' = r.err
            /\ calls' = calls \o r.calls
            /\ IF r.err # nil
               THEN Return("", r.err)
               ELSE pc' = "Validate" /\ UNCHANGED ret
    /\ UNCHANGED <<users, policies, idCount, op, token, args, user, agentVars>>

Register_Validate_NoRegex ==
    /\ op = "Register" /\ pc = "Validate"
    /\ IF Validate(user) # nil THEN Return("", Validate(user))
       ELSE pc' = "ID" /\ UNCHANGED ret
    /\ UNCHANGED <<users, policies, idCount, op, token, args, user, authzErr, calls, agentVars>>

Register_Validate ==
    /\ op = "Register" /\ pc = "Validate"
    /\ IF Validate(user) # nil THEN Return("", Validate(user))
       ELSE IF ~passRegexMatch(user.Password) THEN Return("", ErrPasswordFormat)
       ELSE pc' = "ID" /\ UNCHANGED ret
    /\ UNCHANGED <<users, policies, idCount, op, token, args, user, authzErr, calls, agentVars>>

Register_ID ==
    /\ op = "Register" /\ pc = "ID"
    /\ \E e \in {nil, errRPC} :
        /\ calls' = Append(calls, Call("ID", e = nil))
        /\ IF e # nil
           THEN /\ Return("", Wrap(ErrCreateUser, e))
                /\ UNCHANGED <<idCount, user>>
           ELSE /\ idCount' = idCount + 1
                /\ user' = [user EXCEPT !.ID = UIDs[idCount + 1]]
                /\ pc' = "claimOwnership"
                /\ UNCHANGED ret
    /\ UNCHANGED <<users, policies, op, token, args, authzErr, agentVars>>

Register_claimOwnership_Ignored ==
    /\ op = "Register" /\ pc = "claimOwnership"
    /\ \E e \in {nil, errRPC}, authorized \in BOOLEAN :
        LET err == claimOwnership(authorized, e)
        IN  /\ calls' = Append(calls, Call("AddPolicy", err = nil))
            /\ policies' = auth_AddPolicy(policies,
                               AddPolicyReq(user.ID, usersObjKey, memberRelationKey),
                               authorized, e)
            /\ pc' = "Hash" /\ UNCHANGED ret
    /\ UNCHANGED <<users, idCount, op, token, args, user, authzErr, agentVars>>

Register_claimOwnership ==
    /\ op = "Register" /\ pc = "claimOwnership"
    /\ \E e \in {nil, errRPC}, authorized \in BOOLEAN :
        LET err == claimOwnership(authorized, e)
        IN  /\ calls' = Append(calls, Call("AddPolicy", err = nil))
            /\ policies' = auth_AddPolicy(policies,
                               AddPolicyReq(user.ID, usersObjKey, memberRelationKey),
                               authorized, e)
            /\ IF err # nil
               THEN Return("", err)
               ELSE pc' = "Hash" /\ UNCHANGED ret
    /\ UNCHANGED <<users, idCount, op, token, args, user, authzErr, agentVars>>

Register_Hash_Plaintext ==
    /\ op = "Register" /\ pc = "Hash"
    /\ \E e \in {nil, errHash} :
        /\ calls' = Append(calls, Call("Hash", e = nil))
        /\ IF e # nil
           THEN Return("", Wrap(ErrMalformedEntity, e)) /\ UNCHANGED user
           ELSE /\ UNCHANGED user
                /\ pc' = "Save"
                /\ UNCHANGED ret
    /\ UNCHANGED <<users, policies, idCount, op, token, args, authzErr, agentVars>>

Register_Hash ==
    /\ op = "Register" /\ pc = "Hash"
    /\ \E e \in {nil, errHash} :
        /\ calls' = Append(calls, Call("Hash", e = nil))
        /\ IF e # nil
           THEN Return("", Wrap(ErrMalformedEntity, e)) /\ UNCHANGED user
           ELSE /\ user' = [user EXCEPT !.Password = Hash(user.Password)]
                /\ pc' = "Save"
                /\ UNCHANGED ret
    /\ UNCHANGED <<users, policies, idCount, op, token, args, authzErr, agentVars>>

Register_Save ==
    /\ op = "Register" /\ pc = "Save"
    /\ \E e \in {nil, errDB} :
        LET err == SaveErr(users, user, e)
        IN  /\ calls' = Append(calls, Call("Save", err = nil))
            /\ IF err # nil
               THEN Return("", err) /\ UNCHANGED users
               ELSE users' = users \cup {user} /\ Return(SaveID(user), nil)
    /\ UNCHANGED <<policies, idCount, op, token, args, user, authzErr, agentVars>>

LoginCall ==
    \E email \in Emails, pw \in {"Str0ng!pw", "0ther!pw"},
       dbErr \in {nil, errDB}, rpcErr \in {nil, errRPC} :
        LET u == [ID |-> "", Email |-> email, Password |-> pw, Metadata |-> ""]
            r == Login(users, u, dbErr, rpcErr)
        IN  /\ pc \in {"idle", "done"}
            /\ op' = "Login"
            /\ token' = ""
            /\ user' = u
            /\ args' = NoArgs
            /\ authzErr' = <<"pending">>
            /\ calls' = r.calls
            /\ Return(r.val, r.err)
            /\ UNCHANGED <<users, policies, idCount, agentVars>>

----------------------------------------------------------------------------
\* users service: the other methods, each called on a repository that holds
\* registered users

\* a method called with (tok, u, a) that ran to its return with result r
Invoke(name, tok, u, a, r) ==
    /\ pc \in {"idle", "done"}
    /\ op' = name
    /\ token' = tok
    /\ user' = u
    /\ args' = a
    /\ authzErr' = <<"pending">>
    /\ calls' = r.calls
    /\ users' = r.users
    /\ Return(r.val, r.err)
    /\ UNCHANGED <<policies, idCount, agentVars>>

Windows == {<<0, 2>>, <<1, 2>>}

ViewUserCall ==
    \E tok \in Tokens, id \in {"u1", "u3"}, failAt \in 0..2 :
        Invoke("ViewUser", tok, NoUser, [NoArgs EXCEPT !.id = id],
               ViewUser(users, tok, id, failAt))

ViewProfileCall ==
    \E tok \in Tokens, failAt \in 0..2 :
        Invoke("ViewProfile", tok, NoUser, NoArgs, ViewProfile(users, tok, failAt))

ListUsersCall ==
    \E tok \in Tokens, w \in Windows, failAt \in 0..2 :
        Invoke("ListUsers", tok, NoUser,
               [NoArgs EXCEPT !.offset = w[1], !.limit = w[2]],
               ListUsers(users, tok, w[1], w[2], "", failAt))

UpdateUserCall ==
    \E tok \in Tokens, email \in {"a@x.com", "b@x.com"}, failAt \in 0..2 :
        LET u == [ID |-> IF email = "a@x.com" THEN "u1" ELSE "u2", Email |-> email,
                  Password |-> "", Metadata |-> "m1"]
        IN  Invoke("UpdateUser", tok, u, NoArgs, UpdateUser(users, tok, u, failAt))

GenerateResetTokenCall ==
    \E email \in Emails, failAt \in 0..3 :
        Invoke("GenerateResetToken", "", NoUser, [NoArgs EXCEPT !.email = email],
               GenerateResetToken(users, email, "host", failAt))

ResetPasswordCall ==
    \E tok \in Tokens, pw \in {"weak", "0ther!pw"}, failAt \in 0..4 :
        Invoke("ResetPassword", tok, NoUser, [NoArgs EXCEPT !.password = pw],
               ResetPassword(users, tok, pw, failAt))

ChangePasswordCall ==
    \E tok \in Tokens, pw \in {"weak", "0ther!pw"}, old \in {"Str0ng!pw", "0ther!pw"},
       failAt \in 0..6 :
        Invoke("ChangePassword", tok, NoUser,
               [NoArgs EXCEPT !.password = pw, !.oldPassword = old],
               ChangePassword(users, tok, pw, old, failAt))

ListMembersCall ==
    \E tok \in Tokens, g \in {"g0", "g1"}, w \in Windows, failAt \in 0..3 :
        Invoke("ListMembers", tok, NoUser,
               [NoArgs EXCEPT !.groupID = g, !.offset = w[1], !.limit = w[2]],
               ListMembers(users, tok, g, w[1], w[2], failAt))

----------------------------------------------------------------------------
\* Specifications

AgentIdle ==
    /\ initTuples = {}
    /\ authzDB = NewKetoMock({})
    /\ ketoDB = {}
    /\ lastCall = [op |-> "none", pr |-> [Subject |-> "", Object |-> "", Relation |-> ""], rpcErr |-> nil]
    /\ mockRes = nil
    /\ ketoRes = nil
    /\ mockAdded = {}
    /\ ketoAdded = {}
    /\ gor = GorIdle

SvcIdle ==
    /\ users = {}
    /\ policies = {}
    /\ idCount = 0
    /\ op = "none"
    /\ pc = "idle"
    /\ token = ""
    /\ user = NoUser
    /\ args = NoArgs
    /\ authzErr = <<"pending">>
    /\ calls = <<>>
    /\ ret = [val |-> "", err |-> nil]

Init ==
    /\ AgentIdle
    /\ users = {}
    /\ policies \in SUBSET {bootstrapPolicy, adminPolicy}
    /\ idCount = 0
    /\ op = "none"
    /\ pc = "idle"
    /\ token = ""
    /\ user = NoUser
    /\ args = NoArgs
    /\ authzErr = <<"pending">>
    /\ calls = <<>>
    /\ ret = [val |-> "", err |-> nil]

Next ==
    \/ RegisterCall
    \/ Register_checkAuthz
    \/ Register_Validate
    \/ Register_ID
    \/ Register_claimOwnership
    \/ Register_Hash
    \/ Register_Save
    \/ LoginCall

Spec == Init /\ [][Next]_vars

\* users that Register has stored, with their ownership tuples
Registered(id, email) ==
    [ID |-> id, Email |-> email, Password |-> Hash("Str0ng!pw"), Metadata |-> "m0"]

InitOps ==
    /\ AgentIdle
    /\ users \in { {}, {Registered("u1", "a@x.com")},
                   {Registered("u1", "a@x.com"), Registered("u2", "b@x.com")} }
    /\ policies = {bootstrapPolicy}
                    \cup {AddPolicyReq(u.ID, usersObjKey, memberRelationKey) : u \in users}
    /\ idCount = Cardinality(users)
    /\ op = "none"
    /\ pc = "idle"
    /\ token = ""
    /\ user = NoUser
    /\ args = NoArgs
    /\ authzErr = <<"pending">>
    /\ calls = <<>>
    /\ ret = [val |-> "", err |-> nil]

NextOps ==
    \/ ViewUserCall
    \/ ViewProfileCall
    \/ ListUsersCall
    \/ UpdateUserCall
    \/ GenerateResetTokenCall
    \/ ResetPasswordCall
    \/ ChangePasswordCall
    \/ ListMembersCall

SpecOps == InitOps /\ [][NextOps]_vars

\* the method has returned: nothing of the call is kept
Finish ==
    /\ pc = "done"
    /\ op' = "none"
    /\ pc' = "idle"
    /\ token' = ""
    /\ user' = NoUser
    /\ args' = NoArgs
    /\ authzErr' = <<"pending">>
    /\ calls' = <<>>
    /\ ret' = [val |-> "", err |-> nil]
    /\ UNCHANGED <<users, policies, idCount, agentVars>>

\* every method of the service, one call after the other
NextAll ==
    \/ Finish
    \/ (pc = "idle" /\ RegisterCall)
    \/ Register_checkAuthz
    \/ Register_Validate
    \/ Register_ID
    \/ Register_claimOwnership
    \/ Register_Hash
    \/ Register_Save
    \/ (pc = "idle" /\ LoginCall)
    \/ (pc = "idle" /\ ViewUserCall)
    \/ (pc = "idle" /\ ViewProfileCall)
    \/ (pc = "idle" /\ ListUsersCall)
    \/ (pc = "idle" /\ UpdateUserCall)
    \/ (pc = "idle" /\ GenerateResetTokenCall)
    \/ (pc = "idle" /\ ResetPasswordCall)
    \/ (pc = "idle" /\ ChangePasswordCall)
    \/ (pc = "idle" /\ ListMembersCall)

SpecAll == Init /\ [][NextAll]_vars

InitAgent ==
    /\ initTuples \in { {}, {[Subject |-> "s1", Object |-> "users", Relation |-> "member"]},
                        {[Subject |-> "s2", Object |-> "authorities", Relation |-> "create"]} }
    /\ authzDB = NewKetoMock(initTuples)
    /\ ketoDB = initTuples
    /\ lastCall = [op |-> "none", pr |-> [Subject |-> "", Object |-> "", Relation |-> ""], rpcErr |-> nil]
    /\ mockRes = nil
    /\ ketoRes = nil
    /\ mockAdded = {}
    /\ ketoAdded = {}
    /\ gor = GorIdle
    /\ SvcIdle

\* The same AddPolicy call on both backends.
AddPolicy ==
    \E pr \in PolicyReqs, rpcErr \in {nil, errRPC} :
        /\ TotalLen(authzDB) < MaxAdds
        /\ authzDB' = policyAgentMock_AddPolicy(authzDB, pr)
        /\ mockRes' = nil
        /\ ketoDB' = ketoInsert(ketoDB, pr, rpcErr)
        /\ ketoRes' = policyAgent_AddPolicy(rpcErr)
        /\ lastCall' = [op |-> "AddPolicy", pr |-> pr, rpcErr |-> rpcErr]
        /\ mockAdded' = IF mockRes' = nil THEN mockAdded \cup {pr} ELSE mockAdded
        /\ ketoAdded' = IF ketoRes' = nil
                        THEN ketoAdded \cup {pr} ELSE ketoAdded
        /\ UNCHANGED <<initTuples, gor, svcVars>>

\* The same CheckPolicy call on both backends.
CheckPolicy ==
    \E pr \in PolicyReqs, rpcErr \in {nil, errRPC} :
        /\ mockRes' = policyAgentMock_CheckPolicy(authzDB, pr)
        /\ ketoRes' = policyAgent_CheckPolicy(ketoDB, pr, rpcErr)
        /\ lastCall' = [op |-> "CheckPolicy", pr |-> pr, rpcErr |-> rpcErr]
        /\ UNCHANGED <<authzDB, ketoDB, initTuples, mockAdded, ketoAdded, gor, svcVars>>

NextAgent == AddPolicy \/ CheckPolicy

SpecAgent == InitAgent /\ [][NextAgent]_vars

----------------------------------------------------------------------------
\* policyAgentMock.AddPolicy called from goroutines that share one mock.
\* The statement k.authzDB[s] = append(k.authzDB[s], ss) is a map read, an
\* append and a map assignment with no lock around them.

InFlight(g) == gor.pc[g] \in {"read", "write"}

Started == {g \in Goroutines : gor.pc[g] # "idle"}

\* go k.AddPolicy(ctx, pr)
AddPolicy_Go ==
    \E g \in Goroutines, pr \in PolicyReqs :
        /\ ~gor.fatal
        /\ gor.pc[g] = "idle"
        /\ TotalLen(authzDB) + Cardinality(Started) < MaxAdds
        /\ gor' = [gor EXCEPT !.pc[g] = "read", !.pr[g] = pr]
        /\ UNCHANGED <<authzDB, ketoDB, lastCall, mockRes, ketoRes, initTuples,
                       mockAdded, ketoAdded, svcVars>>

\* append(k.authzDB[pr.Subject], MockSubjectSet{...}): the list is read from
\* the map and the appended list is built
AddPolicy_Read ==
    \E g \in Goroutines :
        /\ ~gor.fatal
        /\ gor.pc[g] = "read"
        /\ gor' = [gor EXCEPT !.pc[g] = "write",
                              !.ssList[g] = Append(authzDB[gor.pr[g].Subject],
                                                   MockSubjectSet(gor.pr[g]))]
        /\ UNCHANGED <<authzDB, ketoDB, lastCall, mockRes, ketoRes, initTuples,
                       mockAdded, ketoAdded, svcVars>>

\* k.authzDB[pr.Subject] = ...; return nil
AddPolicy_Write ==
    \E g \in Goroutines :
        /\ ~gor.fatal
        /\ gor.pc[g] = "write"
        /\ authzDB' = [authzDB EXCEPT ![gor.pr[g].Subject] = gor.ssList[g]]
        /\ mockAdded' = mockAdded \cup {gor.pr[g]}
        /\ gor' = [gor EXCEPT !.pc[g] = "returned"]
        /\ UNCHANGED <<ketoDB, lastCall, mockRes, ketoRes, initTuples, ketoAdded, svcVars>>

\* Two goroutines are inside the statement at once: the accesses to the map
\* race, and one outcome of the race is that the runtime detects it and
\* throws "concurrent map writes" (or "concurrent map read and map write"),
\* which ends the process: no call returns.
AddPolicy_Throw ==
    /\ ~gor.fatal
    /\ \A g \in Goroutines : InFlight(g)
    /\ gor' = [gor EXCEPT !.fatal = TRUE]
    /\ UNCHANGED <<authzDB, ketoDB, lastCall, mockRes, ketoRes, initTuples,
                   mockAdded, ketoAdded, svcVars>>

\* the caller has waited for the calls it started
AddPolicy_Join ==
    /\ ~gor.fatal
    /\ Started # {}
    /\ \A g \in Started : gor.pc[g] = "returned"
    /\ gor' = GorIdle
    /\ UNCHANGED <<authzDB, ketoDB, lastCall, mockRes, ketoRes, initTuples,
                   mockAdded, ketoAdded, svcVars>>

\* k.CheckPolicy(ctx, pr) while no AddPolicy is running
CheckPolicy_Quiet ==
    \E pr \in PolicyReqs :
        /\ ~gor.fatal
        /\ \A g \in Goroutines : ~InFlight(g)
        /\ mockRes' = policyAgentMock_CheckPolicy(authzDB, pr)
        /\ lastCall' = [op |-> "CheckPolicy", pr |-> pr, rpcErr |-> nil]
        /\ UNCHANGED <<authzDB, ketoDB, ketoRes, initTuples, mockAdded, ketoAdded,
                       gor, svcVars>>

NextRace ==
    \/ AddPolicy_Go
    \/ AddPolicy_Read
    \/ AddPolicy_Write
    \/ AddPolicy_Throw
    \/ AddPolicy_Join
    \/ CheckPolicy_Quiet

SpecRace == InitAgent /\ [][NextRace]_vars

\* Both goroutines have been started with the same tuple.
DuplicateGrant ==
    /\ Started = Goroutines
    /\ gor.pr["g1"] = gor.pr["g2"]

\* C19: when two AddPolicy calls for the same tuple run one after the other
\* or interleaved, both return (the process is not ended by the runtime), a
\* CheckPolicy of the tuple succeeds once both have returned, and the check
\* of every tuple that was not granted is what it was at construction.
C19_DuplicateGrantSafe ==
    DuplicateGrant =>
        /\ ~gor.fatal
        /\ (\A g \in Goroutines : gor.pc[g] = "returned") =>
              /\ policyAgentMock_CheckPolicy(authzDB, gor.pr["g1"]) = nil
              /\ \A pr \in PolicyReqs \ mockAdded :
                    policyAgentMock_CheckPolicy(authzDB, pr) =
                        policyAgentMock_CheckPolicy(NewKetoMock(initTuples), pr)

\* Both goroutines have been started with tuples of one subject that differ
\* in the (object, relation) pair.
SameSubjectGrants ==
    /\ Started = Goroutines
    /\ gor.pr["g1"].Subject = gor.pr["g2"].Subject
    /\ MockSubjectSet(gor.pr["g1"]) # MockSubjectSet(gor.pr["g2"])

\* C22: when two AddPolicy calls on the mock for one subject and different
\* (object, relation) pairs interleave at their read of the subject's list
\* and their write of the appended list, then once both have returned
\* CheckPolicy succeeds for both tuples.
C22_NoGrantLost ==
    (SameSubjectGrants /\ \A g \in Goroutines : gor.pc[g] = "returned") =>
        \A g \in Goroutines : policyAgentMock_CheckPolicy(authzDB, gor.pr[g]) = nil

----------------------------------------------------------------------------
\* Properties of the users service (checked under Spec)

Made(name) == \E c \in Range(calls) : c.call = name

InRegister == op = "Register"

Returned == pc = "done"

GatePending == authzErr = <<"pending">>

GatePassed == InRegister /\ authzErr = nil

GateRejected == InRegister /\ ~GatePending /\ authzErr # nil

Bootstrap == [Sub |-> "*", Obj |-> "user", Act |-> "create"] \in policies

Member(id, object) == [Sub |-> id, Obj |-> object, Act |-> "member"] \in policies

IsAdmin(tok) ==
    /\ tok \in DOMAIN Identities
    /\ Member(Identities[tok].id, "authorities")

NothingCreated == ~Made("ID") /\ ~Made("AddPolicy") /\ ~Made("Save")

\* C1: in every state, also inside a running Register and after an aborted
\* one, every stored user id u has the tuple (u, "users", "member") granted;
\* Save is only reached with the tuple granted, and a Register whose
\* AddPolicy failed or was not authorized never calls Save.
C1_NoOrphanAccount ==
    /\ \A u \in users : Member(u.ID, "users")
    /\ (InRegister /\ pc \in {"Hash", "Save"}) => Member(user.ID, "users")
    /\ (InRegister /\ Call("AddPolicy", FALSE) \in Range(calls)) => ~Made("Save")

C1_Witness ==
    /\ users # {}
    /\ InRegister /\ Returned
    /\ Call("AddPolicy", FALSE) \in Range(calls)
    /\ ret.err # nil

C3_RejectedIsUnauthorized ==
    (GateRejected /\ Returned) => Kind(ret.err) = "Unauthorized"

\* C3 (amended): a Register rejected at the gate returns the gate's error:
\* Unauthorized when the token is empty or Identify rejects it, and
\* Authorization when the token resolves to an identity whose member check
\* on "authorities" is denied or fails.
C3_RejectedKind ==
    (GateRejected /\ Returned) =>
        /\ ret = [val |-> "", err |-> authzErr]
        /\ Kind(ret.err) =
              IF token = "" \/ Call("Identify", FALSE) \in Range(calls)
              THEN "Unauthorized" ELSE "Authorization"

C3_Witness ==
    /\ GateRejected /\ Returned
    /\ token = "tokB"
    /\ Call("Identify", TRUE) \in Range(calls)
    /\ Kind(ret.err) = "Authorization"

\* C8 (as claimed): a Register with a password that does not match the
\* pattern returns PasswordFormat and never calls the id provider, AddPolicy
\* or Save, for every token and payload.
C8_WeakPasswordFormat ==
    (InRegister /\ user.Password = "weak") =>
        /\ NothingCreated
        /\ Returned => Kind(ret.err) = "PasswordFormat"

\* C8 (amended): a Register with a password that does not match the pattern
\* never calls the id provider, AddPolicy or Save and returns an error: the
\* gate's error when the gate rejects it, MalformedEntity when the payload is
\* invalid, and PasswordFormat otherwise.
C8_WeakPasswordStops ==
    (InRegister /\ user.Password = "weak") =>
        /\ NothingCreated
        /\ pc \in {"checkAuthz", "Validate", "done"}
        /\ Returned =>
              ret.err = IF authzErr # nil THEN authzErr
                        ELSE IF Validate(user) # nil THEN ErrMalformedEntity
                        ELSE ErrPasswordFormat

C8_Witness ==
    /\ InRegister /\ Returned
    /\ user.Password = "weak"
    /\ GatePassed
    /\ Kind(ret.err) = "PasswordFormat"

\* C9: when Register returns success, the id it returns is not empty and the
\* tuple (id, "users", "member") is stored in the policy backend, so a check
\* of that tuple is granted.
C9_ReturnedIdIsMember ==
    (InRegister /\ Returned /\ ret.err = nil) =>
        /\ ret.val # ""
        /\ Member(ret.val, "users")
        /\ authorize(policies, ret.val, "users", "member", nil) = nil

C9_Witness ==
    /\ InRegister /\ Returned /\ ret.err = nil
    /\ token = ""
    /\ ret.val \in Range(UIDs)

\* C10: a Login with an email that is not stored and a Login with a stored
\* email and a wrong password both return an error of kind Unauthorized, and
\* neither asks the auth service for a token.
C10_LoginFailuresAlike ==
    (op = "Login" /\ Returned /\
        (\/ ~\E u \in users : u.Email = user.Email
         \/ \E u \in users : u.Email = user.Email /\ u.Password # Hash(user.Password))) =>
        /\ Kind(ret.err) = "Unauthorized"
        /\ ret.val = ""
        /\ ~Made("Issue")

C10_Witness ==
    /\ op = "Login" /\ Returned
    /\ \E u \in users : u.Email = user.Email /\ u.Password # Hash(user.Password)
    /\ \E v \in Emails : v # "" /\ ~\E u \in users : u.Email = v
    /\ Kind(ret.err) = "Unauthorized"

----------------------------------------------------------------------------
\* Properties of the other methods (checked under SpecOps and SpecAll)

Resolves(tok) == tok \in DOMAIN Identities

\* the stored record of the identity the token resolves to
Own(repo, tok) == {u \in repo : Resolves(tok) /\ u.Email = Identities[tok].email}

\* the stored hash of the caller is not the hash of the old password given
WrongOld(repo, tok, old) == \E u \in Own(repo, tok) : u.Password # Hash(old)

IdentifyRejected == Call("Identify", FALSE) \in Range(calls)

\* C11 (as claimed): a ChangePassword whose old password does not match the
\* stored hash returns Unauthorized and leaves the stored users as they are,
\* for every new password.
C11_WrongOldIsUnauthorized ==
    [][(op' = "ChangePassword" /\ WrongOld(users, token', args'.oldPassword)) =>
            /\ Kind(ret'.err) = "Unauthorized"
            /\ users' = users]_vars

\* C11 (amended): a ChangePassword whose old password does not match the
\* stored hash leaves the stored users as they are and never calls
\* UpdatePassword; it returns Unauthorized when the new password matches the
\* pattern (or the token is rejected) and PasswordFormat when it does not.
C11_WrongOldChangesNothing ==
    [][(op' = "ChangePassword" /\ WrongOld(users, token', args'.oldPassword)) =>
            /\ users' = users
            /\ ~\E c \in Range(calls') : c.call \in {"UpdatePassword", "Hash"}
            /\ Kind(ret'.err) =
                  IF passRegexMatch(args'.password)
                     \/ Call("Identify", FALSE) \in Range(calls')
                  THEN "Unauthorized" ELSE "PasswordFormat"]_vars

C11_Witness ==
    /\ op = "ChangePassword" /\ Returned
    /\ WrongOld(users, token, args.oldPassword)
    /\ passRegexMatch(args.password)
    /\ Call("Compare", FALSE) \in Range(calls)
    /\ ret.err = ErrUnauthorizedAccess

\* C12: UpdateUser passes to the repository a user that carries the email
\* resolved from the token and the metadata of the payload and nothing else,
\* and the only stored record it changes is the one with that email, in its
\* metadata.
C12_UpdateOwnMetadataOnly ==
    [][op' = "UpdateUser" =>
            /\ \A c \in Range(calls') :
                  c.call = "UpdateUser" =>
                      /\ Resolves(token')
                      /\ c.req = [ID |-> "", Email |-> Identities[token'].email,
                                  Password |-> "", Metadata |-> user'.Metadata]
            /\ \A v \in users :
                  \/ v \in users'
                  \/ /\ v \in Own(users, token')
                     /\ [v EXCEPT !.Metadata = user'.Metadata] \in users'
            /\ Cardinality(users') = Cardinality(users)]_vars

C12_Witness ==
    /\ op = "UpdateUser" /\ Returned /\ ret.err = nil
    /\ token = "tokA"
    /\ user.Email = "b@x.com" /\ user.ID = "u2"
    /\ \E a \in users : a.Email = "a@x.com" /\ a.Metadata = "m1"
    /\ \E b \in users : b.Email = "b@x.com" /\ b.ID = "u2" /\ b.Metadata = "m0"

\* C13: every User that ViewUser or ViewProfile returns has an empty
\* password.
C13_ViewHidesPassword ==
    (op \in {"ViewUser", "ViewProfile"} /\ Returned) => ret.val.Password = ""

C13_Witness ==
    /\ op = "ViewUser" /\ Returned /\ ret.err = nil
    /\ \E u \in users : u.ID = args.id /\ u.Password # "" /\ ret.val.Email = u.Email

\* C14: the Members request of ListMembers carries the offset argument as
\* Offset and the limit argument as Limit.
C14_MembersWindow ==
    op = "ListMembers" =>
        \A c \in Range(calls) :
            c.call = "Members" =>
                c.req.Offset = args.offset /\ c.req.Limit = args.limit

\* C15: when the auth service answers Members with an empty list,
\* ListMembers returns without error a page with the offset and limit of the
\* call, total 0 and a users slice that is empty and not nil, and it does
\* not query the repository.
C15_EmptyMembersPage ==
    (op = "ListMembers" /\ Returned /\
        \E c \in Range(calls) :
            c.call = "Members" /\ c.ok /\ auth_Members(c.req, nil).Members = <<>>) =>
        /\ ret.err = nil
        /\ ret.val.Total = 0
        /\ ret.val.Offset = args.offset
        /\ ret.val.Limit = args.limit
        /\ ~ret.val.Users.nil
        /\ ret.val.Users.items = <<>>
        /\ ~Made("RetrieveAll")

C15_Witness ==
    /\ op = "ListMembers" /\ Returned /\ ret.err = nil
    /\ args.groupID = "g0" /\ args.offset = 1 /\ args.limit = 2
    /\ users # {}
    /\ ret.val = [Total |-> 0, Offset |-> 1, Limit |-> 2, Users |-> Slice(<<>>)]

\* C16: GenerateResetToken for an email without a stored user returns
\* UserNotFound and neither asks for a recovery token nor sends an email; an
\* email is sent only after the lookup succeeded and a token was issued.
C16_UnknownEmailNoMail ==
    (op = "GenerateResetToken" /\ Returned) =>
        /\ (~\E u \in users : u.Email = args.email) =>
              /\ ret.err = ErrUserNotFound
              /\ ~Made("Issue")
              /\ ~Made("SendPasswordReset")
        /\ Made("SendPasswordReset") =>
              /\ Len(calls) = 3
              /\ calls[1] = Call("RetrieveByEmail", TRUE)
              /\ calls[2] = Call("Issue", TRUE)
              /\ calls[3].call = "SendPasswordReset"
              /\ calls[3].req.to = <<args.email>>

C16_Witness ==
    /\ op = "GenerateResetToken" /\ Returned
    /\ args.email = "b@x.com"
    /\ users # {}
    /\ ~\E u \in users : u.Email = args.email
    /\ ret.err = ErrUserNotFound

Taxonomy ==
    {"Conflict", "GroupConflict", "MalformedEntity", "Unauthorized", "Authorization",
     "NotFound", "UserNotFound", "ScanMetadata", "MissingEmail", "MissingResetToken",
     "RecoveryToken", "GetToken", "CreateUser", "PasswordFormat"}

\* C17: every error a method returns has a kind of the domain taxonomy; the
\* error of a collaborator is never the outermost kind.
C17_ErrorsInTaxonomy ==
    (Returned /\ ret.err # nil) => Kind(ret.err) \in Taxonomy

\* the call returned an error (for Authorize: the RPC failed, it did not
\* merely deny)
ReturnedError(c) == ~c.ok /\ (c.call = "Authorize" => c.rpc)

\* C18 (as claimed): once a call on a collaborator has returned an error, the
\* method makes no further call and returns an error.
C18_FailureEndsCall ==
    \A i \in DOMAIN calls :
        ReturnedError(calls[i]) => (i = Len(calls) /\ Returned /\ ret.err # nil)

\* C18 (amended): once a call on a collaborator has returned an error (or a
\* denial), the method makes no further call and returns an error, except
\* for the bootstrap check that opens Register: when it fails, Register goes
\* on to Identify the token and to the member check, and may succeed.
C18_FailureEndsCallButBootstrap ==
    \A i \in DOMAIN calls :
        (~calls[i].ok /\ ~(op = "Register" /\ i = 1 /\ calls[i].call = "Authorize")) =>
            (i = Len(calls) /\ Returned /\ ret.err # nil)

C18_Witness ==
    /\ op = "Register" /\ Returned /\ ret.err = nil
    /\ calls[1] = AuthorizeCall(FALSE, errRPC)
    /\ Bootstrap
    /\ Made("Save")

TokenOps ==
    {"ViewUser", "ViewProfile", "ListUsers", "UpdateUser", "ResetPassword",
     "ChangePassword", "ListMembers"}

\* C20: when Identify rejects the token of ViewUser, ViewProfile, ListUsers,
\* UpdateUser, ResetPassword, ChangePassword or ListMembers, the method
\* returns an error of kind Unauthorized, its only call is that Identify, and
\* the stored users and tuples stay as they are.
C20_RejectedTokenStops ==
    /\ []((op \in TokenOps /\ Returned /\ (~Resolves(token) \/ IdentifyRejected)) =>
            /\ Kind(ret.err) = "Unauthorized"
            /\ calls = <<Call("Identify", FALSE)>>)
    /\ [][(op' \in TokenOps /\ ~Resolves(token')) =>
            (users' = users /\ policies' = policies)]_vars

C20_Witness ==
    /\ op = "ListUsers" /\ Returned
    /\ token = "bad"
    /\ users # {}
    /\ Kind(ret.err) = "Unauthorized"

\* the outputs of the hasher for the passwords that match the pattern
StrongHashes == {Hash(p) : p \in {q \in Passwords : passRegexMatch(q)}}

\* C21: every password stored by Save or passed to UpdatePassword is the
\* hasher's output for a password that matches the pattern, and is no
\* plaintext; every UpdatePassword is for the email that the token of the
\* call resolves to and carries the hash of the new password of that call.
C21_OnlyStrongHashesWritten ==
    /\ \A u \in users : u.Password \in StrongHashes /\ u.Password \notin Passwords
    /\ (InRegister /\ (pc = "Save" \/ Made("Save"))) =>
          (user.Password \in StrongHashes /\ user.Password \notin Passwords)
    /\ \A c \in Range(calls) :
          c.call = "UpdatePassword" =>
              /\ op \in {"ResetPassword", "ChangePassword"}
              /\ Resolves(token)
              /\ c.req.email = Identities[token].email
              /\ passRegexMatch(args.password)
              /\ c.req.password = Hash(args.password)
              /\ c.req.password \notin Passwords

C21_Witness ==
    /\ op = "ChangePassword" /\ Returned /\ ret.err = nil
    /\ token = "tokA"
    /\ args.oldPassword = "Str0ng!pw" /\ args.password = "0ther!pw"
    /\ \E c \in Range(calls) : c.call = "UpdatePassword" /\ c.ok
    /\ \E u \in users : u.Email = "a@x.com" /\ u.Password = Hash("0ther!pw")
    /\ \E u \in users : u.Email = "b@x.com" /\ u.Password = Hash("Str0ng!pw")

----------------------------------------------------------------------------
\* Properties of the PolicyAgent backends (checked under SpecAgent)

Checked == lastCall.op = "CheckPolicy"

\* C4 (as claimed): on either backend, once AddPolicy of a tuple has returned
\* nil, every later CheckPolicy of that tuple returns nil.
C4_AddedThenAllowed ==
    Checked =>
        /\ lastCall.pr \in mockAdded => mockRes = nil
        /\ lastCall.pr \in ketoAdded => ketoRes = nil

\* C4 (amended): once AddPolicy of a tuple has returned nil the tuple stays
\* stored; every later CheckPolicy of it returns nil on the in-memory
\* backend, and on the Keto backend it returns nil unless the Check call
\* itself fails.
C4_AddedThenAllowedUnlessRPCFails ==
    /\ ketoAdded \subseteq ketoDB
    /\ Checked =>
        /\ lastCall.pr \in mockAdded => mockRes = nil
        /\ (lastCall.pr \in ketoAdded /\ lastCall.rpcErr = nil) => ketoRes = nil
        /\ (lastCall.pr \in ketoAdded /\ lastCall.rpcErr # nil) => ketoRes # nil

C4_Witness ==
    /\ Checked
    /\ lastCall.pr \in ketoAdded /\ lastCall.pr \in mockAdded
    /\ Cardinality(mockAdded) >= 2
    /\ Len(authzDB[lastCall.pr.Subject]) >= 2
    /\ authzDB[lastCall.pr.Subject][Len(authzDB[lastCall.pr.Subject])] # MockSubjectSet(lastCall.pr)
    /\ mockRes = nil /\ ketoRes = nil

\* C5: CheckPolicy on the in-memory backend returns nil exactly for the
\* tuples it was constructed with or that were added, a tuple never added is
\* denied whatever it shares with added tuples, a CheckPolicy of the Keto
\* backend never returns nil for a tuple never added, and CheckPolicy leaves
\* the stores as they are.
C5_CheckExact ==
    /\ [](Checked =>
            /\ mockRes = nil <=> lastCall.pr \in (initTuples \cup mockAdded)
            /\ mockRes # nil => mockRes = authErrAuthorization
            /\ ketoRes = nil => lastCall.pr \in (initTuples \cup ketoAdded))
    /\ [][lastCall'.op = "CheckPolicy" => (authzDB' = authzDB /\ ketoDB' = ketoDB)]_vars

C5_Witness ==
    /\ Checked
    /\ lastCall.pr = [Subject |-> "s1", Object |-> "users", Relation |-> "create"]
    /\ lastCall.pr \notin (initTuples \cup mockAdded)
    /\ [Subject |-> "s1", Object |-> "users", Relation |-> "member"] \in mockAdded
    /\ [Subject |-> "s1", Object |-> "authorities", Relation |-> "member"] \in mockAdded
    /\ mockRes = authErrAuthorization

\* C6: fed the same calls from the same initial tuples, the Keto backend and
\* the in-memory backend return the same outcome at every step.
C6_BackendsEquivalent == mockRes = ketoRes

\* C7: every error a PolicyAgent call returns has the kind Authorization.
C7_FailuresAreAuthorization ==
    /\ ketoRes # nil => Kind(ketoRes) = "Authorization"
    /\ mockRes # nil => Kind(mockRes) = "Authorization"

====
